---- MODULE Spec2Model ----
(***************************************************************************)
(* A model of slackrs: the record model and its pattern predicate          *)
(* (src/src/slack.rs), the aggregation pipeline (src/src/lib.rs), the      *)
(* series reconciler and ratio calculator (src/src/plot.rs) and the task   *)
(* runner (process_tasks in src/src/lib.rs).                               *)
(*                                                                         *)
(* A Rust String is a tuple of one-character strings, Option<T> is         *)
(* <<"None">> or <<"Some", x>>, a Vec is a sequence, a HashSet is a set.   *)
(***************************************************************************)
EXTENDS Integers, Sequences, FiniteSets, TLC

VARIABLES
    pc,                 \* the position of the operation under study
    overflow_checks,    \* the build profile: TRUE when integer overflow panics
    message,            \* Message::contains: the receiver
    pattern,            \* Message::contains: the pattern argument
    found,              \* Message::contains: the returned bool
    messages,           \* filter_and_count_messages: the record collection
    channel_pattern,    \* filter_and_count_messages: its channel pattern
    message_pattern,    \* filter_and_count_messages: its text pattern
    resolution,         \* filter_and_count_messages: its TimeResolution
    messages_to_plot,   \* filter_and_count_messages: the filtered records
    message_counts,     \* group_messages_by_time: the returned series
    panicked,           \* TRUE once the operation under study has panicked
    msg_counts1,        \* ratio_plot: the series of pattern 1
    msg_counts2,        \* ratio_plot: the series of pattern 2
    message_counts1,    \* ratio_plot: series 1 after consolidate_labels
    message_counts2,    \* ratio_plot: series 2 after consolidate_labels
    shared_labels,      \* ratio_plot: the labels of message_counts1
    time_series,        \* ratio_plot: the (label, ratio) pairs
    tasks,              \* process_tasks: the task list
    jobs,               \* process_tasks: the jobs par_iter() has split it into
    task_state,         \* process_tasks: per task "pending", "done" or "panicked"
    files,              \* the files written, each with the task that wrote it
    panic_messages,     \* the panic messages printed, each with its task
    archive,            \* read_zip_contents: the entries of the opened archive
    file_index,         \* the i of its loop over the entries
    result,             \* the messages loaded so far, in load order
    counter,            \* the message files analyzed so far
    stderr,             \* the warnings written by read_file
    sorted_results      \* the collection it returns

containsVars == <<message, pattern, found>>

countVars == <<messages, channel_pattern, message_pattern, resolution,
               messages_to_plot, message_counts>>

ratioVars == <<msg_counts1, msg_counts2, message_counts1, message_counts2,
               shared_labels, time_series>>

taskVars == <<tasks, jobs, task_state, files, panic_messages>>

loadVars == <<archive, file_index, result, counter, stderr, sorted_results>>

vars == <<pc, overflow_checks, panicked, containsVars, countVars, ratioVars,
          taskVars, loadVars>>

Unused == <<"unused">>

-----------------------------------------------------------------------------
(* Option<T> *)

None == <<"None">>

Some(x) == <<"Some", x>>

IsSome(o) == o[1] = "Some"

Unwrap(o) == o[2]

-----------------------------------------------------------------------------
(* str::contains: substring search; the empty pattern occurs in every text. *)

Contains(text, pat) ==
    \E i \in 0..(Len(text) - Len(pat)) : SubSeq(text, i + 1, i + Len(pat)) = pat

-----------------------------------------------------------------------------
(* slack.rs: MessageAttachment, MessageBlock, Message *)

MessageAttachment_contains(attachment, pat) ==
    IF IsSome(attachment.text)
    THEN Contains(Unwrap(attachment.text), pat)
    ELSE FALSE

RECURSIVE MessageBlock_contains(_, _)
MessageBlock_contains(block, pat) ==
    IF IsSome(block.text)
    THEN Contains(Unwrap(block.text), pat)
    ELSE IF IsSome(block.elements)
         THEN \E i \in 1..Len(Unwrap(block.elements)) :
                  MessageBlock_contains(Unwrap(block.elements)[i], pat)
         ELSE FALSE

\* self.attachments.iter().flatten(): the elements of the Vec, none for None.
Flatten(opt) == IF IsSome(opt) THEN Unwrap(opt) ELSE <<>>

Message_contains(msg, pat) ==
    \/ Contains(msg.text, pat)
    \/ \E i \in 1..Len(Flatten(msg.attachments)) :
           MessageAttachment_contains(Flatten(msg.attachments)[i], pat)
    \/ \E i \in 1..Len(Flatten(msg.blocks)) :
           MessageBlock_contains(Flatten(msg.blocks)[i], pat)

-----------------------------------------------------------------------------
(* slack.rs: Message::time. ts is "<seconds>" or "<seconds>.<fraction>".     *)

Digits == <<"0", "1", "2", "3", "4", "5", "6", "7", "8", "9">>

IsDigit(c) == \E d \in 1..10 : Digits[d] = c

DigitValue(c) == (CHOOSE d \in 1..10 : Digits[d] = c) - 1

\* ts.split(".").next(): the text before the first ".", all of it without one.
RECURSIVE SplitFirst(_)
SplitFirst(ts) ==
    IF ts = <<>> \/ Head(ts) = "." THEN <<>>
    ELSE <<Head(ts)>> \o SplitFirst(Tail(ts))

RECURSIVE DigitsToInt(_)
DigitsToInt(s) ==
    IF s = <<>> THEN 0
    ELSE 10 * DigitsToInt(SubSeq(s, 1, Len(s) - 1)) + DigitValue(s[Len(s)])

\* str::parse::<i64>: an optional sign and at least one digit, else an Err.
ParseI64(s) ==
    LET signed == s # <<>> /\ Head(s) \in {"+", "-"}
        body   == IF signed THEN Tail(s) ELSE s
    IN  IF body = <<>> \/ \E i \in 1..Len(body) : ~IsDigit(body[i])
        THEN None
        ELSE Some(IF signed /\ Head(s) = "-"
                  THEN 0 - DigitsToInt(body) ELSE DigitsToInt(body))

\* The whole seconds since the epoch of DateTime::from_timestamp(seconds, 0);
\* the fraction of ts is dropped. (An Err of parse makes expect() panic; the
\* timestamps of TsPool all parse.)
Message_time(msg) == Unwrap(ParseI64(SplitFirst(msg.ts)))

-----------------------------------------------------------------------------
(* chrono: the proleptic Gregorian date of a UTC timestamp, and format().    *)

SecondsPerDay == 86400

\* <<year, month, day>> of the day `days` days after 1970-01-01.
CivilFromDays(days) ==
    LET z   == days + 719468
        era == z \div 146097
        doe == z - era * 146097
        yoe == (doe - doe \div 1460 + doe \div 36524 - doe \div 146096) \div 365
        doy == doe - (365 * yoe + yoe \div 4 - yoe \div 100)
        mp  == (5 * doy + 2) \div 153
        d   == doy - (153 * mp + 2) \div 5 + 1
        m   == IF mp < 10 THEN mp + 3 ELSE mp - 9
        y   == yoe + era * 400 + (IF m <= 2 THEN 1 ELSE 0)
    IN  <<y, m, d>>

\* n in decimal, zero-padded to `width` digits (%Y: 4, %m and %d: 2).
RECURSIVE Pad(_, _)
Pad(n, width) ==
    IF width = 0 THEN <<>>
    ELSE Pad(n \div 10, width - 1) \o <<Digits[(n % 10) + 1]>>

Resolutions == {"Daily", "Monthly", "Yearly"}

\* Monthly without the year: "%m" for "%Y-%m".
time_by_resolution_month_only(msg, res) ==
    LET ymd == CivilFromDays(Message_time(msg.message) \div SecondsPerDay)
    IN  CASE res = "Daily" ->
               Pad(ymd[1], 4) \o <<"-">> \o Pad(ymd[2], 2) \o <<"-">> \o Pad(ymd[3], 2)
          [] res = "Monthly" -> Pad(ymd[2], 2)
          [] res = "Yearly" -> Pad(ymd[1], 4)

time_by_resolution(msg, res) ==
    LET ymd == CivilFromDays(Message_time(msg.message) \div SecondsPerDay)
    IN  CASE res = "Daily" ->
               Pad(ymd[1], 4) \o <<"-">> \o Pad(ymd[2], 2) \o <<"-">> \o Pad(ymd[3], 2)
          [] res = "Monthly" -> Pad(ymd[1], 4) \o <<"-">> \o Pad(ymd[2], 2)
          [] res = "Yearly" -> Pad(ymd[1], 4)

-----------------------------------------------------------------------------
(* lib.rs: group_messages_by_time and filter_and_count_messages.            *)

\* a - b on usize: whether it overflows, and the value a build without
\* overflow checks computes, where a negative n stands for 2^64 + n.
UsizeSubOverflows(a, b) == a < b

UsizeSubWrapped(a, b) == a - b

Push(vec, x) == Append(vec, x)

\* The loop body with a new run counted from 0 instead of 1.
GroupBody_restart_at_zero(st, index, time_label, len) ==
    LET s1 == IF index = 0
              THEN [st EXCEPT !.last_count = 1, !.last_label = time_label]
              ELSE IF time_label = st.last_label
                   THEN [st EXCEPT !.last_count = st.last_count + 1]
                   ELSE st
        s2 == IF time_label # s1.last_label
              THEN [s1 EXCEPT
                      !.message_counts = Push(s1.message_counts,
                                              <<s1.last_label, s1.last_count>>),
                      !.last_count = 0,
                      !.last_label = time_label]
              ELSE s1
    IN  IF UsizeSubOverflows(len, 1) /\ overflow_checks
        THEN [s2 EXCEPT !.panicked = TRUE]
        ELSE IF index = UsizeSubWrapped(len, 1)
             THEN [s2 EXCEPT
                     !.message_counts = Push(s2.message_counts,
                                             <<s2.last_label, s2.last_count>>)]
             ELSE s2

\* One pass of the for loop's body, on the record at 0-based `index`.
GroupBody(st, index, time_label, len) ==
    LET s1 == IF index = 0
              THEN [st EXCEPT !.last_count = 1, !.last_label = time_label]
              ELSE IF time_label = st.last_label
                   THEN [st EXCEPT !.last_count = st.last_count + 1]
                   ELSE st
        s2 == IF time_label # s1.last_label
              THEN [s1 EXCEPT
                      !.message_counts = Push(s1.message_counts,
                                              <<s1.last_label, s1.last_count>>),
                      !.last_count = 1,
                      !.last_label = time_label]
              ELSE s1
    IN  IF UsizeSubOverflows(len, 1) /\ overflow_checks
        THEN [s2 EXCEPT !.panicked = TRUE]
        ELSE IF index = UsizeSubWrapped(len, 1)
             THEN [s2 EXCEPT
                     !.message_counts = Push(s2.message_counts,
                                             <<s2.last_label, s2.last_count>>)]
             ELSE s2

RECURSIVE GroupLoop(_, _, _, _)
GroupLoop(st, index, msgs, res) ==
    IF index >= Len(msgs) \/ st.panicked THEN st
    ELSE GroupLoop(GroupBody(st, index, time_by_resolution(msgs[index + 1], res),
                             Len(msgs)),
                   index + 1, msgs, res)

GroupStart ==
    [message_counts |-> <<>>, last_count |-> 0, last_label |-> <<>>,
     panicked |-> FALSE]

\* The function with messages_to_plot.len() - 1 computed once, before the loop.
group_messages_by_time_hoisted(msgs, res) ==
    IF UsizeSubOverflows(Len(msgs), 1) /\ overflow_checks
    THEN [GroupStart EXCEPT !.panicked = TRUE]
    ELSE GroupLoop(GroupStart, 0, msgs, res)

\* The state of the function at its return: message_counts is what it
\* returns, panicked whether it panicked instead.
group_messages_by_time(msgs, res) == GroupLoop(GroupStart, 0, msgs, res)

filter_messages(msgs, cp, mp) ==
    LET Keep(x) == Contains(x.channel, cp) /\ Message_contains(x.message, mp)
    IN  SelectSeq(msgs, Keep)

filter_and_count_messages(msgs, cp, mp, res) ==
    group_messages_by_time(filter_messages(msgs, cp, mp), res)

-----------------------------------------------------------------------------
(* plot.rs: label_set, consolidate_labels, calculate_time_series_ratios.     *)

label_set(counts) == { counts[i][1] : i \in 1..Len(counts) }

\* The reconciler with the labels of the first series taken for the shared ones.
consolidate_labels_first_labels(counts1, counts2) ==
    LET labels1 == label_set(counts1)
        Shared(pair) == pair[1] \in labels1
    IN  <<SelectSeq(counts1, Shared), SelectSeq(counts2, Shared)>>

\* The reconciler with the second series returned as it came.
consolidate_labels_second_unfiltered(counts1, counts2) ==
    LET shared == label_set(counts1) \cap label_set(counts2)
        Shared(pair) == pair[1] \in shared
    IN  <<SelectSeq(counts1, Shared), counts2>>

\* The reconciler with the second series returned latest bucket first.
consolidate_labels_second_reversed(counts1, counts2) ==
    LET shared == label_set(counts1) \cap label_set(counts2)
        Shared(pair) == pair[1] \in shared
        kept2 == SelectSeq(counts2, Shared)
    IN  <<SelectSeq(counts1, Shared),
          [i \in 1..Len(kept2) |-> kept2[Len(kept2) + 1 - i]]>>

consolidate_labels(counts1, counts2) ==
    LET labels1 == label_set(counts1)
        labels2 == label_set(counts2)
        shared  == labels1 \cap labels2
        Shared(pair) == pair[1] \in shared
    IN  <<SelectSeq(counts1, Shared), SelectSeq(counts2, Shared)>>

\* ratio_plot's shared_labels: the labels of a series, in its order.
labels_of(counts) == [i \in 1..Len(counts) |-> counts[i][1]]

RECURSIVE Gcd(_, _)
Gcd(a, b) == IF b = 0 THEN a ELSE Gcd(b, a % b)

\* An f64 is the fraction num/den in lowest terms that it rounds; 0/0 is NaN
\* and 1/0 is infinity.
F64Zero == [num |-> 0, den |-> 1]

\* a as f64 / b as f64
F64Div(a, b) ==
    IF b = 0 THEN [num |-> IF a = 0 THEN 0 ELSE 1, den |-> 0]
    ELSE [num |-> a \div Gcd(a, b), den |-> b \div Gcd(a, b)]

Min(a, b) == IF a <= b THEN a ELSE b

\* The ratios with the division done on every bucket.
calculate_time_series_ratios_unguarded(labels, counts1, counts2) ==
    [i \in 1..Min(Len(labels), Min(Len(counts1), Len(counts2))) |->
        <<labels[i], F64Div(counts1[i][2], counts1[i][2] + counts2[i][2])>>]

\* The ratios with the buckets of two zero counts left out.
calculate_time_series_ratios_skip_zero(labels, counts1, counts2) ==
    LET n == Min(Len(labels), Min(Len(counts1), Len(counts2)))
        all == [i \in 1..n |->
                  <<labels[i], counts1[i][2], counts1[i][2] + counts2[i][2]>>]
        NonZero(t) == t[3] # 0
        kept == SelectSeq(all, NonZero)
    IN  [i \in 1..Len(kept) |-> <<kept[i][1], F64Div(kept[i][2], kept[i][3])>>]

\* zip() stops at the shortest of the three sequences.
calculate_time_series_ratios(labels, counts1, counts2) ==
    [i \in 1..Min(Len(labels), Min(Len(counts1), Len(counts2))) |->
        <<labels[i],
          IF counts2[i][2] + counts1[i][2] = 0
          THEN F64Zero
          ELSE F64Div(counts1[i][2], counts1[i][2] + counts2[i][2])>>]

\* The name of the CSV file of write_message_counts_to_csv.
csv_output_file_name(description, output_file_name) ==
    IF IsSome(description)
    THEN output_file_name \o <<"-">> \o Unwrap(description)
             \o <<".", "c", "s", "v">>
    ELSE output_file_name \o <<".", "c", "s", "v">>

CountsPattern1 ==
    <<"c", "o", "u", "n", "t", "s", "-", "p", "a", "t", "t", "e", "r", "n", "1">>

CountsPattern2 ==
    <<"c", "o", "u", "n", "t", "s", "-", "p", "a", "t", "t", "e", "r", "n", "2">>

\* What the file system lets a plot function do: all of it, or fail at a CSV
\* file or at the image (root.fill, the chart, root.present).
CounterPlotOutcomes == {"Ok", "CsvErr", "RenderErr"}

RatioPlotOutcomes == {"Ok", "Csv1Err", "Csv2Err", "RenderErr"}

\* counter_plot: its Result, and the files it has written by then.
counter_plot(task, counts, io) ==
    LET csv == [file |-> csv_output_file_name(None, task.output_file_name),
                content |-> counts]
        png == [file |-> task.output_file_name, content |-> counts]
    IN  CASE io = "CsvErr" -> [result |-> "Err", writes |-> {}]
          [] io = "RenderErr" -> [result |-> "Err", writes |-> {csv}]
          [] io = "Ok" -> [result |-> "Ok", writes |-> {csv, png}]

\* ratio_plot: its Result ("Panic" when shared_labels.len() - 1 overflows in a
\* build that checks it), and the files it has written by then.
ratio_plot(task, counts1, counts2, io) ==
    LET cons   == consolidate_labels(counts1, counts2)
        shared == labels_of(cons[1])
        csv1   == [file |-> csv_output_file_name(Some(CountsPattern1),
                                                 task.output_file_name),
                   content |-> cons[1]]
        csv2   == [file |-> csv_output_file_name(Some(CountsPattern2),
                                                 task.output_file_name),
                   content |-> cons[2]]
        series == calculate_time_series_ratios(shared, cons[1], cons[2])
        png    == [file |-> task.output_file_name, content |-> series]
    IN  CASE io = "Csv1Err" -> [result |-> "Err", writes |-> {}]
          [] io = "Csv2Err" -> [result |-> "Err", writes |-> {csv1}]
          [] io = "RenderErr" -> [result |-> "Err", writes |-> {csv1, csv2}]
          [] io = "Ok" ->
               IF UsizeSubOverflows(Len(shared), 1) /\ overflow_checks
               THEN [result |-> "Panic", writes |-> {csv1, csv2}]
               ELSE [result |-> "Ok", writes |-> {csv1, csv2, png}]

-----------------------------------------------------------------------------
(* lib.rs: the closure process_tasks runs on every task.                    *)

PlotOutcomes(task) ==
    IF task.metric.kind = "MentionCount"
    THEN CounterPlotOutcomes ELSE RatioPlotOutcomes

\* The plot call of the closure, on the series it has counted.
plot_task(task, msgs, io) ==
    IF task.metric.kind = "MentionCount"
    THEN counter_plot(task,
             filter_and_count_messages(msgs, task.metric.channel_pattern,
                 task.metric.message_pattern, task.resolution).message_counts,
             io)
    ELSE ratio_plot(task,
             filter_and_count_messages(msgs, task.metric.channel_pattern,
                 task.metric.message_pattern1, task.resolution).message_counts,
             filter_and_count_messages(msgs, task.metric.channel_pattern,
                 task.metric.message_pattern2, task.resolution).message_counts,
             io)

\* .expect("Image generation failed."): an Err panics, as a panic does.
ExpectPanics(ret) == ret.result # "Ok"

\* What the panic of the closure prints: the message of the overflow check
\* for a panic inside ratio_plot, the message of expect() for an Err.
PanicMessage(ret) ==
    IF ret.result = "Panic"
    THEN "attempt to subtract with overflow"
    ELSE "Image generation failed."

-----------------------------------------------------------------------------
(* The bounded universe of messages. *)

MaxBlockNodes == 3      \* blocks in one message, over all nesting depths

MaxAttachments == 1     \* attachments in one message

TextPool == { <<>>, <<"a">>, <<"b", "a">> }

BlockTextPool == { None, Some(<<"a">>), Some(<<"b">>) }

PatternPool == { <<>>, <<"a">>, <<"b">>, <<"a", "b">> }

RECURSIVE BlocksUpTo(_), BlockListsUpTo(_)
\* The blocks of at most n nodes.
BlocksUpTo(n) ==
    IF n <= 0 THEN {}
    ELSE { [text |-> t, elements |-> e] :
             t \in BlockTextPool,
             e \in {None} \cup { Some(l) : l \in BlockListsUpTo(n - 1) \ {<<>>} } }

\* The lists of blocks of at most n nodes in all.
BlockListsUpTo(n) ==
    {<<>>} \cup
    UNION { { <<b>> \o rest : b \in BlocksUpTo(k), rest \in BlockListsUpTo(n - k) } :
            k \in 1..n }

RECURSIVE AttachmentListsUpTo(_)
AttachmentListsUpTo(n) ==
    IF n <= 0 THEN {<<>>}
    ELSE AttachmentListsUpTo(n - 1) \cup
         { l \o <<[text |-> t]>> :
             l \in AttachmentListsUpTo(n - 1), t \in BlockTextPool }

OptionOfList(l) == IF l = <<>> THEN None ELSE Some(l)

\* The fields of Message that contains() reads; ts is added where time matters.
MessageBodies ==
    { [text |-> t, attachments |-> OptionOfList(a), blocks |-> OptionOfList(b)] :
        t \in TextPool,
        a \in AttachmentListsUpTo(MaxAttachments),
        b \in BlockListsUpTo(MaxBlockNodes) }

-----------------------------------------------------------------------------
(* The variables of the operations a specification does not run.            *)

TasksIdle ==
    /\ tasks = Unused
    /\ jobs = Unused
    /\ task_state = Unused
    /\ files = Unused
    /\ panic_messages = Unused

RatioIdle ==
    /\ msg_counts1 = Unused
    /\ msg_counts2 = Unused
    /\ message_counts1 = Unused
    /\ message_counts2 = Unused
    /\ shared_labels = Unused
    /\ time_series = Unused

CountIdle ==
    /\ messages = Unused
    /\ channel_pattern = Unused
    /\ message_pattern = Unused
    /\ resolution = Unused
    /\ messages_to_plot = Unused
    /\ message_counts = Unused

ContainsIdle ==
    /\ message = Unused
    /\ pattern = Unused
    /\ found = Unused

LoadIdle ==
    /\ archive = Unused
    /\ file_index = Unused
    /\ result = Unused
    /\ counter = Unused
    /\ stderr = Unused
    /\ sorted_results = Unused

-----------------------------------------------------------------------------
(* Specification SpecContains: Message::contains applied to one message.    *)

InitContains ==
    /\ pc = "contains"
    /\ LoadIdle
    /\ overflow_checks = FALSE
    /\ panicked = FALSE
    /\ message \in MessageBodies
    /\ pattern \in PatternPool
    /\ found = Unused
    /\ CountIdle
    /\ RatioIdle
    /\ TasksIdle

CallContains ==
    /\ pc = "contains"
    /\ found' = Message_contains(message, pattern)
    /\ pc' = "done"
    /\ UNCHANGED <<message, pattern, overflow_checks, panicked, countVars, ratioVars,
                   taskVars, loadVars>>

NextContains == CallContains

SpecContains == InitContains /\ [][NextContains]_vars

-----------------------------------------------------------------------------
(* The effective text of a record: its direct text and every text reachable *)
(* through its attachments and its blocks, at any depth.                    *)

RECURSIVE BlockTexts(_)
BlockTexts(block) ==
    (IF IsSome(block.text) THEN {Unwrap(block.text)} ELSE {}) \cup
    UNION { BlockTexts(Flatten(block.elements)[i]) :
            i \in 1..Len(Flatten(block.elements)) }

EffectiveTexts(msg) ==
    {msg.text}
    \cup { Unwrap(Flatten(msg.attachments)[i].text) :
             i \in { j \in 1..Len(Flatten(msg.attachments)) :
                       IsSome(Flatten(msg.attachments)[j].text) } }
    \cup UNION { BlockTexts(Flatten(msg.blocks)[i]) :
                 i \in 1..Len(Flatten(msg.blocks)) }

\* C9: Message::contains(pattern) is true if and only if pattern is a
\* substring of the direct text, of an attachment's text, or of the text of a
\* block reachable at any depth, sub-blocks of a block with a text included.
C9_ContainsIffReachableText ==
    pc = "done" =>
        (found <=> \E t \in EffectiveTexts(message) : Contains(t, pattern))

-----------------------------------------------------------------------------
(* Specification SpecCount: filter_and_count_messages applied to a record   *)
(* collection sorted by time, as read_zip_contents returns it.              *)

MaxMessages == 3        \* records in the collection

\* 1970-01-01 (the ts of the test ts_to_datetime_ok), 1970-01-02,
\* 1970-12-31 and 1971-01-01.
TsPool ==
    { <<"1", "2", "3", ".", "4", "5", "6">>,
      <<"8", "6", "4", "0", "0">>,
      <<"3", "1", "5", "3", "5", "9", "9", "9", ".", "9">>,
      <<"3", "1", "5", "3", "6", "0", "0", "0">> }

\* A record of channel "g" with the text "a"; one of channel "r" whose only
\* "a" is in a sub-block of a block with the text "b"; one of channel "r"
\* with no text at all.
ContentPool ==
    { [channel |-> <<"g">>,
       body |-> [text |-> <<"a">>, attachments |-> None, blocks |-> None]],
      [channel |-> <<"r">>,
       body |-> [text |-> <<>>, attachments |-> None,
                 blocks |-> Some(<<[text |-> Some(<<"b">>),
                                    elements |-> Some(<<[text |-> Some(<<"a">>),
                                                         elements |-> None]>>)]>>)]],
      [channel |-> <<"r">>,
       body |-> [text |-> <<>>, attachments |-> None, blocks |-> None]] }

\* MessageInChannel::new(channel, message)
MessageInChannel(channel, body, ts) ==
    [channel |-> channel,
     message |-> [ts |-> ts, text |-> body.text,
                  attachments |-> body.attachments, blocks |-> body.blocks]]

RecordPool ==
    { MessageInChannel(c.channel, c.body, ts) : c \in ContentPool, ts \in TsPool }

SortedByTime(msgs) ==
    \A i \in 1..(Len(msgs) - 1) :
        Message_time(msgs[i].message) <= Message_time(msgs[i + 1].message)

SortedCollections ==
    { msgs \in UNION { [1..n -> RecordPool] : n \in 0..MaxMessages } :
        SortedByTime(msgs) }

ChannelPatternPool == { <<>>, <<"g">> }

MessagePatternPool == { <<>>, <<"a">> }

InitCount ==
    /\ pc = "filter_and_count"
    /\ LoadIdle
    /\ overflow_checks \in BOOLEAN
    /\ panicked = FALSE
    /\ messages \in SortedCollections
    /\ channel_pattern \in ChannelPatternPool
    /\ message_pattern \in MessagePatternPool
    /\ resolution \in Resolutions
    /\ messages_to_plot = Unused
    /\ message_counts = Unused
    /\ ContainsIdle
    /\ RatioIdle
    /\ TasksIdle

CallFilterAndCount ==
    /\ pc = "filter_and_count"
    /\ messages_to_plot' = filter_messages(messages, channel_pattern, message_pattern)
    /\ LET ret == group_messages_by_time(messages_to_plot', resolution)
       IN  /\ message_counts' = ret.message_counts
           /\ panicked' = ret.panicked
    /\ pc' = "done"
    /\ UNCHANGED <<messages, channel_pattern, message_pattern, resolution,
                   overflow_checks, containsVars, ratioVars, taskVars,
                   loadVars>>

NextCount == CallFilterAndCount

SpecCount == InitCount /\ [][NextCount]_vars

-----------------------------------------------------------------------------
(* Claims about the aggregator.                                             *)

CharCodes == <<"-", "0", "1", "2", "3", "4", "5", "6", "7", "8", "9">>

CharCode(c) == CHOOSE k \in 1..Len(CharCodes) : CharCodes[k] = c

\* The order of strings; on labels of one resolution it is the order of the
\* periods they name.
RECURSIVE StrLess(_, _)
StrLess(a, b) ==
    IF b = <<>> THEN FALSE
    ELSE IF a = <<>> THEN TRUE
    ELSE IF Head(a) # Head(b) THEN CharCode(Head(a)) < CharCode(Head(b))
    ELSE StrLess(Tail(a), Tail(b))

RECURSIVE SumCounts(_)
SumCounts(series) ==
    IF series = <<>> THEN 0 ELSE Head(series)[2] + SumCounts(Tail(series))

\* The bucket labels of the records handed to group_messages_by_time.
InputLabels ==
    [k \in 1..Len(messages_to_plot) |->
        time_by_resolution(messages_to_plot[k], resolution)]

\* C1: on a record sequence sorted by timestamp, at every resolution, the
\* labels of the returned series are in non-decreasing time order and no
\* label occurs twice.
C1_LabelsOrderedNoDuplicates ==
    pc = "done" =>
        \A i, j \in 1..Len(message_counts) :
            i < j => /\ ~StrLess(message_counts[j][1], message_counts[i][1])
                     /\ message_counts[i][1] # message_counts[j][1]

\* Two buckets came out and two records were merged into one of them.
C1_Witness ==
    /\ pc = "done"
    /\ Len(message_counts) >= 2
    /\ Len(messages_to_plot) > Len(message_counts)

\* C2: exactly one pair per bucket label of the input, its count the number
\* of input records of that label; every count is at least 1, the counts sum
\* to the input length, and an input of one bucket yields one pair whose
\* count is the input length.
C2_OnePairPerInputLabel ==
    pc = "done" =>
        LET labels == InputLabels
            n      == Len(messages_to_plot)
        IN  /\ \A k \in 1..n :
                   \E i \in 1..Len(message_counts) :
                       /\ message_counts[i][1] = labels[k]
                       /\ \A j \in 1..Len(message_counts) :
                              message_counts[j][1] = labels[k] => j = i
            /\ \A i \in 1..Len(message_counts) :
                   /\ message_counts[i][2] >= 1
                   /\ message_counts[i][2] =
                          Cardinality({ k \in 1..n : labels[k] = message_counts[i][1] })
            /\ SumCounts(message_counts) = n
            /\ (n > 0 /\ \A k \in 1..n : labels[k] = labels[1])
               => message_counts = << <<labels[1], n>> >>

\* A bucket of two records was followed by another bucket.
C2_Witness ==
    /\ pc = "done"
    /\ Len(message_counts) >= 2
    /\ message_counts[1][2] >= 2

\* C3: an empty filtered sequence yields the empty series, and no panic:
\* messages_to_plot.len() - 1 is not evaluated on it.
C3_EmptyInputEmptySeries ==
    (pc = "done" /\ messages_to_plot = <<>>) =>
        (message_counts = <<>> /\ ~panicked)

\* The filter left nothing of a non-empty collection, in a build that checks
\* integer overflow.
C3_Witness ==
    /\ pc = "done"
    /\ messages # <<>>
    /\ messages_to_plot = <<>>
    /\ overflow_checks

EffectiveBody(msg) ==
    [text |-> msg.text, attachments |-> msg.attachments, blocks |-> msg.blocks]

SelectedByPatterns(x) ==
    /\ Contains(x.channel, channel_pattern)
    /\ \E t \in EffectiveTexts(EffectiveBody(x.message)) : Contains(t, message_pattern)

\* C10: the filter step selects exactly the records whose channel contains
\* the channel pattern and whose effective text contains the text pattern,
\* in input order; an empty pattern matches every channel or every record.
C10_FilterSelectsByEffectiveText ==
    pc = "done" => messages_to_plot = SelectSeq(messages, SelectedByPatterns)

-----------------------------------------------------------------------------
(* Specification SpecRatio: consolidate_labels and                          *)
(* calculate_time_series_ratios as ratio_plot applies them to two           *)
(* aggregated series (no label occurs twice in a series).                   *)

MaxSeriesLen == 2       \* pairs in an aggregated series

LabelPool ==
    { <<"2", "0", "2", "4", "-", "0", "3">>,
      <<"2", "0", "2", "4", "-", "0", "4">>,
      <<"2", "0", "2", "4", "-", "0", "5">> }

CountPool == {0, 2, 3}

NoLabelTwice(counts) ==
    \A i, j \in 1..Len(counts) : counts[i][1] = counts[j][1] => i = j

SeriesPool ==
    { counts \in UNION { [1..n -> LabelPool \X CountPool] : n \in 0..MaxSeriesLen } :
        NoLabelTwice(counts) }

InitRatio ==
    /\ pc = "consolidate_labels"
    /\ LoadIdle
    /\ overflow_checks = FALSE
    /\ panicked = FALSE
    /\ msg_counts1 \in SeriesPool
    /\ msg_counts2 \in SeriesPool
    /\ message_counts1 = Unused
    /\ message_counts2 = Unused
    /\ shared_labels = Unused
    /\ time_series = Unused
    /\ ContainsIdle
    /\ CountIdle
    /\ TasksIdle

\* plot.rs 205-210
CallConsolidateLabels ==
    /\ pc = "consolidate_labels"
    /\ LET ret == consolidate_labels(msg_counts1, msg_counts2)
       IN  /\ message_counts1' = ret[1]
           /\ message_counts2' = ret[2]
           /\ shared_labels' = labels_of(ret[1])
    /\ pc' = "calculate_time_series_ratios"
    /\ UNCHANGED <<msg_counts1, msg_counts2, time_series, overflow_checks,
                   panicked, containsVars, countVars, taskVars,
                   loadVars>>

\* plot.rs 231-232
CallCalculateRatios ==
    /\ pc = "calculate_time_series_ratios"
    /\ time_series' =
           calculate_time_series_ratios(shared_labels, message_counts1, message_counts2)
    /\ pc' = "done"
    /\ UNCHANGED <<msg_counts1, msg_counts2, message_counts1, message_counts2,
                   shared_labels, overflow_checks, panicked, containsVars, countVars,
                   taskVars, loadVars>>

NextRatio == CallConsolidateLabels \/ CallCalculateRatios

SpecRatio == InitRatio /\ [][NextRatio]_vars

-----------------------------------------------------------------------------
(* Claims about the reconciler and the ratio calculator.                    *)

Consolidated == pc \in {"calculate_time_series_ratios", "done"}

OccursIn(label, counts) == \E i \in 1..Len(counts) : counts[i][1] = label

InBoth(pair) == OccursIn(pair[1], msg_counts1) /\ OccursIn(pair[1], msg_counts2)

\* C4: each output of consolidate_labels is the subsequence of its input's
\* pairs whose label occurs in both inputs, in the input's order and with the
\* counts unchanged; with no label in common both outputs are empty.
C4_OutputsAreSharedSubsequences ==
    Consolidated =>
        /\ message_counts1 = SelectSeq(msg_counts1, InBoth)
        /\ message_counts2 = SelectSeq(msg_counts2, InBoth)
        /\ (\A i \in 1..Len(msg_counts1) : ~OccursIn(msg_counts1[i][1], msg_counts2))
           => (message_counts1 = <<>> /\ message_counts2 = <<>>)

\* Two labels are shared, in opposite orders in the two series.
C4_Witness ==
    /\ Consolidated
    /\ Len(message_counts1) = 2
    /\ message_counts1[1][1] = message_counts2[2][1]
    /\ message_counts1[2][1] = message_counts2[1][1]

PartialOverlap ==
    /\ \E i \in 1..Len(msg_counts1) : OccursIn(msg_counts1[i][1], msg_counts2)
    /\ \/ \E i \in 1..Len(msg_counts1) : ~OccursIn(msg_counts1[i][1], msg_counts2)
       \/ \E i \in 1..Len(msg_counts2) : ~OccursIn(msg_counts2[i][1], msg_counts1)

\* C5: two series with a partial label overlap are reconciled into two
\* series of equal length.
C5_PartialOverlapEqualLength ==
    (Consolidated /\ PartialOverlap) =>
        Len(message_counts1) = Len(message_counts2)

\* Series 2 has one label that series 1 lacks, and one is shared.
C5_Witness ==
    /\ Consolidated
    /\ PartialOverlap
    /\ Len(msg_counts1) = 1
    /\ Len(msg_counts2) = 2
    /\ Len(message_counts2) = 1

\* C6: at each position the ratio is count1 / (count1 + count2), and exactly
\* 0 when both counts are zero (no NaN); (2,2) gives 1/2, (3,0) gives 1 and
\* (0,0) gives 0.
C6_RatioPerPosition ==
    pc = "done" =>
        \A i \in 1..Len(time_series) :
            LET c1 == message_counts1[i][2]
                c2 == message_counts2[i][2]
                r  == time_series[i][2]
            IN  /\ r.den # 0
                /\ r.num * (c1 + c2) = c1 * r.den
                /\ (c1 = 0 /\ c2 = 0) => r = [num |-> 0, den |-> 1]
                /\ (c1 = 2 /\ c2 = 2) => r = [num |-> 1, den |-> 2]
                /\ (c1 = 3 /\ c2 = 0) => r = [num |-> 1, den |-> 1]

\* One bucket has the counts (0,0) and another the counts (2,2).
C6_Witness ==
    /\ pc = "done"
    /\ Len(time_series) = 2
    /\ \E i, j \in 1..2 :
           /\ message_counts1[i][2] = 0 /\ message_counts2[i][2] = 0
           /\ message_counts1[j][2] = 2 /\ message_counts2[j][2] = 2

\* C7: the output has the length of the input label list and its labels in
\* the same order.
C7_SameLengthAndLabelOrder ==
    pc = "done" =>
        /\ Len(time_series) = Len(shared_labels)
        /\ \A i \in 1..Len(time_series) : time_series[i][1] = shared_labels[i]

\* Two shared labels, the later one first, one of them with the counts (0,0).
C7_Witness ==
    /\ pc = "done"
    /\ Len(shared_labels) = 2
    /\ StrLess(shared_labels[2], shared_labels[1])
    /\ message_counts1[1][2] = 0
    /\ message_counts2[1][2] = 0

-----------------------------------------------------------------------------
(* Specification SpecTasks: process_tasks. tasks.par_iter().for_each(..)    *)
(* halves the task list into jobs (rayon's join: both halves always run,    *)
(* and a panic of either is resumed in the caller once both have ended);    *)
(* a job that is not split runs its tasks in order, and a panic ends it.    *)

MaxTasks == 2           \* tasks in the task list

TaskPool ==
    { [metric |-> [kind |-> "MentionCount", channel_pattern |-> <<>>,
                   message_pattern |-> <<"a">>],
       resolution |-> "Daily", output_file_name |-> <<"x">>],
      [metric |-> [kind |-> "StringMessageCountRatio", channel_pattern |-> <<>>,
                   message_pattern1 |-> <<"a">>, message_pattern2 |-> <<>>],
       resolution |-> "Monthly", output_file_name |-> <<"y">>],
      [metric |-> [kind |-> "StringMessageCountRatio", channel_pattern |-> <<"g">>,
                   message_pattern1 |-> <<"a">>, message_pattern2 |-> <<"b">>],
       resolution |-> "Yearly", output_file_name |-> <<"x">>] }

TaskLists == UNION { [1..n -> TaskPool] : n \in 0..MaxTasks }

\* Three records of 1970-01-01, 1970-12-31 and 1971-01-01.
SampleMessages ==
    << MessageInChannel(<<"g">>,
           [text |-> <<"a">>, attachments |-> None, blocks |-> None],
           <<"1", "2", "3", ".", "4", "5", "6">>),
       MessageInChannel(<<"r">>,
           [text |-> <<"b", "a">>, attachments |-> None, blocks |-> None],
           <<"3", "1", "5", "3", "5", "9", "9", "9", ".", "9">>),
       MessageInChannel(<<"g">>,
           [text |-> <<"a">>, attachments |-> Some(<<[text |-> None]>>),
            blocks |-> None],
           <<"3", "1", "5", "3", "6", "0", "0", "0">>) >>

InitTasks ==
    /\ pc = "process_tasks"
    /\ LoadIdle
    /\ overflow_checks \in BOOLEAN
    /\ panicked = FALSE
    /\ tasks \in TaskLists
    /\ jobs = IF tasks = <<>> THEN {}
              ELSE {[lo |-> 1, hi |-> Len(tasks), next |-> 1, st |-> "new"]}
    /\ task_state = [i \in 1..Len(tasks) |-> "pending"]
    /\ files = {}
    /\ panic_messages = {}
    /\ messages = SampleMessages
    /\ channel_pattern = Unused
    /\ message_pattern = Unused
    /\ resolution = Unused
    /\ messages_to_plot = Unused
    /\ message_counts = Unused
    /\ ContainsIdle
    /\ RatioIdle

TasksFrame ==
    UNCHANGED <<tasks, messages, overflow_checks, channel_pattern, message_pattern,
                resolution, messages_to_plot, message_counts, containsVars,
                ratioVars, loadVars>>

\* par_iter(): a job of two tasks or more that has not started is halved.
SplitJob(j) ==
    /\ pc = "process_tasks"
    /\ j.st = "new"
    /\ j.hi > j.lo
    /\ LET mid == j.lo + (j.hi - j.lo + 1) \div 2
       IN  jobs' = (jobs \ {j}) \cup
                   { [lo |-> j.lo, hi |-> mid - 1, next |-> j.lo, st |-> "new"],
                     [lo |-> mid, hi |-> j.hi, next |-> mid, st |-> "new"] }
    /\ UNCHANGED <<pc, panicked, task_state, files, panic_messages>>
    /\ TasksFrame

\* for_each: the closure on the next task of a job. A panic of the closure
\* unwinds the job, whose later tasks are never run.
RunTask(j, io) ==
    /\ pc = "process_tasks"
    /\ j.st \in {"new", "folding"}
    /\ io \in PlotOutcomes(tasks[j.next])
    /\ LET ret == plot_task(tasks[j.next], messages, io)
       IN  /\ files' = files \cup
                  { [file |-> w.file, content |-> w.content, task |-> j.next] :
                      w \in ret.writes }
           /\ IF ExpectPanics(ret)
              THEN /\ task_state' = [task_state EXCEPT ![j.next] = "panicked"]
                   /\ panic_messages' = panic_messages \cup
                          {[task |-> j.next, message |-> PanicMessage(ret)]}
                   /\ jobs' = (jobs \ {j}) \cup {[j EXCEPT !.st = "panicked"]}
              ELSE /\ task_state' = [task_state EXCEPT ![j.next] = "done"]
                   /\ panic_messages' = panic_messages
                   /\ jobs' = (jobs \ {j}) \cup
                        {[j EXCEPT !.next = j.next + 1,
                                   !.st = IF j.next = j.hi THEN "done"
                                          ELSE "folding"]}
    /\ UNCHANGED <<pc, panicked>>
    /\ TasksFrame

\* Every job has ended: Ok(()) is returned, or the panic of a job is resumed
\* in the caller of process_tasks.
EndProcessTasks ==
    /\ pc = "process_tasks"
    /\ \A j \in jobs : j.st \in {"done", "panicked"}
    /\ IF \E j \in jobs : j.st = "panicked"
       THEN pc' = "unwound" /\ panicked' = TRUE
       ELSE pc' = "returned" /\ panicked' = FALSE
    /\ UNCHANGED <<jobs, task_state, files, panic_messages>>
    /\ TasksFrame

NextTasks ==
    \/ \E j \in jobs : SplitJob(j)
    \/ \E j \in jobs : \E io \in RatioPlotOutcomes : RunTask(j, io)
    \/ EndProcessTasks

SpecTasks == InitTasks /\ [][NextTasks]_vars

\* C8: a rendering or export failure of one task does not abort its
\* siblings: every other task still runs to completion and process_tasks
\* still returns to its caller.
C8_FailureIsolatedPerTask ==
    pc # "process_tasks" =>
        /\ pc = "returned"
        /\ \A i \in 1..Len(tasks) : task_state[i] \in {"done", "panicked"}

\* C11: the tasks of a task list write to disjoint output files: no file
\* (image or CSV) is written by two distinct tasks, in any interleaving.
C11_TasksWriteDisjointFiles ==
    \A f, g \in files : f.file = g.file => f.task = g.task

\* C15: shared_labels.len() - 1 is computed without underflow for every pair
\* of series, so a ratio task whose patterns share no bucket does not panic.
C15_NoUnderflowInRatioPlot ==
    \A p \in panic_messages : p.message # "attempt to subtract with overflow"

-----------------------------------------------------------------------------
(* Specification SpecRatioPath: the ratio path of process_tasks for one     *)
(* StringMessageCountRatio task over a collection sorted by time: the two   *)
(* counts of the closure, then ratio_plot's reconciliation and ratios.      *)

RatioTaskPool ==
    { [metric |-> [kind |-> "StringMessageCountRatio", channel_pattern |-> cp,
                   message_pattern1 |-> mp1, message_pattern2 |-> mp2],
       resolution |-> res,
       output_file_name |-> <<"y">>] :
        cp \in ChannelPatternPool, mp1 \in MessagePatternPool,
        mp2 \in MessagePatternPool, res \in Resolutions }

InitRatioPath ==
    /\ pc = "count_patterns"
    /\ LoadIdle
    /\ overflow_checks = FALSE
    /\ panicked = FALSE
    /\ messages \in SortedCollections
    /\ tasks \in { <<t>> : t \in RatioTaskPool }
    /\ msg_counts1 = <<>>
    /\ msg_counts2 = <<>>
    /\ message_counts1 = Unused
    /\ message_counts2 = Unused
    /\ shared_labels = Unused
    /\ time_series = Unused
    /\ channel_pattern = Unused
    /\ message_pattern = Unused
    /\ resolution = Unused
    /\ messages_to_plot = Unused
    /\ message_counts = Unused
    /\ jobs = Unused
    /\ task_state = Unused
    /\ files = Unused
    /\ panic_messages = Unused
    /\ ContainsIdle

\* lib.rs 32-49: the two series counted for the ratio task
CountBothPatterns ==
    /\ pc = "count_patterns"
    /\ LET task == tasks[1]
       IN  /\ msg_counts1' =
                  filter_and_count_messages(messages, task.metric.channel_pattern,
                      task.metric.message_pattern1, task.resolution).message_counts
           /\ msg_counts2' =
                  filter_and_count_messages(messages, task.metric.channel_pattern,
                      task.metric.message_pattern2, task.resolution).message_counts
    /\ pc' = "consolidate_labels"
    /\ UNCHANGED <<message_counts1, message_counts2, shared_labels, time_series,
                   overflow_checks, panicked, containsVars, countVars, taskVars,
                   loadVars>>

NextRatioPath == CountBothPatterns \/ CallConsolidateLabels \/ CallCalculateRatios

SpecRatioPath == InitRatioPath /\ [][NextRatioPath]_vars

\* C14: in the ratio path over a time-sorted collection, the two reconciled
\* series have the same length and carry at every position i the label
\* shared_labels[i], and the ratio at position i is computed from the counts
\* that the two counted series hold for that one label.
C14_RatioCombinesSameBucket ==
    /\ pc \in {"calculate_time_series_ratios", "done"} =>
           /\ Len(message_counts1) = Len(shared_labels)
           /\ Len(message_counts2) = Len(shared_labels)
           /\ \A i \in 1..Len(shared_labels) :
                  /\ message_counts1[i][1] = shared_labels[i]
                  /\ message_counts2[i][1] = shared_labels[i]
    /\ pc = "done" =>
           /\ Len(time_series) = Len(shared_labels)
           /\ \A i \in 1..Len(time_series) :
                  \E j \in 1..Len(msg_counts1), k \in 1..Len(msg_counts2) :
                      /\ msg_counts1[j][1] = time_series[i][1]
                      /\ msg_counts2[k][1] = time_series[i][1]
                      /\ time_series[i][1] = shared_labels[i]
                      /\ time_series[i][2] =
                             F64Div(msg_counts1[j][2],
                                    msg_counts1[j][2] + msg_counts2[k][2])

\* Two shared buckets whose ratios differ.
C14_Witness ==
    /\ pc = "done"
    /\ Len(time_series) = 2
    /\ time_series[1][2] # time_series[2][2]

-----------------------------------------------------------------------------
(* slack.rs: read_zip_contents and what it calls.                           *)

\* JSON_FILE_NAME.is_match(name): the name ends with "/", a date of the form
\* dddd-dd-dd, any one character but a line feed, and "json".
JSON_FILE_NAME_is_match(name) ==
    LET n == Len(name)
    IN  /\ n >= 16
        /\ name[n - 15] = "/"
        /\ \A k \in {n - 14, n - 13, n - 12, n - 11, n - 9, n - 8, n - 6, n - 5} :
               IsDigit(name[k])
        /\ name[n - 10] = "-"
        /\ name[n - 7] = "-"
        /\ name[n - 4] # "\n"
        /\ SubSeq(name, n - 3, n) = <<"j", "s", "o", "n">>

\* read_file on a content that serde_json::from_str turns into json: the
\* messages, and what it writes to stderr.
read_file(file_name, json) ==
    IF IsSome(json)
    THEN [messages |-> Unwrap(json), stderr |-> <<>>]
    ELSE [messages |-> <<>>, stderr |-> <<file_name>>]

MicrosPerSecond == 1000000

\* x.message.time().timestamp_micros(), the key of the sort
timestamp_micros(x) == Message_time(x.message) * MicrosPerSecond

\* A sort by the key that puts an element before those of an equal key.
RECURSIVE sort_by_key_ties_reversed(_)
sort_by_key_ties_reversed(v) ==
    IF v = <<>> THEN <<>>
    ELSE LET x    == v[Len(v)]
             rest == sort_by_key_ties_reversed(SubSeq(v, 1, Len(v) - 1))
             Before(y) == timestamp_micros(y) < timestamp_micros(x)
             After(y)  == ~Before(y)
         IN  SelectSeq(rest, Before) \o <<x>> \o SelectSeq(rest, After)

\* Vec::sort_by_key: the stable sort by the key (the last element goes after
\* the sorted rest's elements of a smaller or an equal key).
RECURSIVE sort_by_key(_)
sort_by_key(v) ==
    IF v = <<>> THEN <<>>
    ELSE LET x    == v[Len(v)]
             rest == sort_by_key(SubSeq(v, 1, Len(v) - 1))
             Before(y) == timestamp_micros(y) <= timestamp_micros(x)
             After(y)  == ~Before(y)
         IN  SelectSeq(rest, Before) \o <<x>> \o SelectSeq(rest, After)

-----------------------------------------------------------------------------
(* Specification SpecLoad: read_zip_contents on an archive that opens and   *)
(* whose entries can be accessed; every ts of a message parses.             *)

MaxFiles == 3           \* entries in the archive

FilePool ==
    { \* "g/1970-01-01.json": two messages, the later one first
      [name |-> <<"g", "/", "1", "9", "7", "0", "-", "0", "1", "-", "0", "1", ".", "j", "s", "o", "n">>,
       is_dir |-> FALSE, utf8 |-> TRUE,
       json |-> Some(<<[ts |-> <<"1", "2", "3", ".", "9">>, text |-> <<"a">>,
                  attachments |-> None, blocks |-> None],
                 [ts |-> <<"5", "9", ".", "9">>, text |-> <<>>,
                  attachments |-> None, blocks |-> None]>>)],
      \* "r/1970-01-01.json": one message, of the second 123 as well
      [name |-> <<"r", "/", "1", "9", "7", "0", "-", "0", "1", "-", "0", "1", ".", "j", "s", "o", "n">>,
       is_dir |-> FALSE, utf8 |-> TRUE,
       json |-> Some(<<[ts |-> <<"1", "2", "3", ".", "4", "5", "6">>, text |-> <<"b">>,
                  attachments |-> None, blocks |-> None]>>)],
      \* "g/1970-01-02.json": text that is no list of messages
      [name |-> <<"g", "/", "1", "9", "7", "0", "-", "0", "1", "-", "0", "2", ".", "j", "s", "o", "n">>,
       is_dir |-> FALSE, utf8 |-> TRUE,
       json |-> None],
      \* "r/1970-01-02.json": bytes that are no UTF-8 text
      [name |-> <<"r", "/", "1", "9", "7", "0", "-", "0", "1", "-", "0", "2", ".", "j", "s", "o", "n">>,
       is_dir |-> FALSE, utf8 |-> FALSE,
       json |-> None],
      \* "users.json": a JSON file of the export that is no message file
      [name |-> <<"u", "s", "e", "r", "s", ".", "j", "s", "o", "n">>,
       is_dir |-> FALSE, utf8 |-> TRUE,
       json |-> Some(<<[ts |-> <<"7">>, text |-> <<"a">>,
                  attachments |-> None, blocks |-> None]>>)],
      \* "g/": a directory
      [name |-> <<"g", "/">>,
       is_dir |-> TRUE, utf8 |-> TRUE,
       json |-> None],
      \* "g/1970-01-03xjson": a name the unescaped "." of the pattern lets through
      [name |-> <<"g", "/", "1", "9", "7", "0", "-", "0", "1", "-", "0", "3", "x", "j", "s", "o", "n">>,
       is_dir |-> FALSE, utf8 |-> TRUE,
       json |-> Some(<<[ts |-> <<"1", "2", "3", "4", ".", "5">>, text |-> <<"a">>,
                  attachments |-> None, blocks |-> None]>>)] }

Archives == UNION { [1..n -> FilePool] : n \in 0..MaxFiles }

InitLoad ==
    /\ pc = "read_zip_contents"
    /\ overflow_checks = FALSE
    /\ panicked = FALSE
    /\ archive \in Archives
    /\ file_index = 0
    /\ result = <<>>
    /\ counter = 0
    /\ stderr = <<>>
    /\ sorted_results = Unused
    /\ ContainsIdle
    /\ CountIdle
    /\ RatioIdle
    /\ TasksIdle

LoadFrame ==
    UNCHANGED <<archive, overflow_checks, panicked, containsVars, countVars,
                ratioVars, taskVars>>

\* slack.rs 182-204: one pass of the loop over the entries
ReadNextFile ==
    /\ pc = "read_zip_contents"
    /\ file_index < Len(archive)
    /\ LET file == archive[file_index + 1]
       IN  IF ~file.is_dir /\ JSON_FILE_NAME_is_match(file.name)
           THEN /\ counter' = counter + 1
                /\ IF file.utf8
                   THEN LET ret == read_file(file.name, file.json)
                            messages_in_channel ==
                                [k \in 1..Len(ret.messages) |->
                                    MessageInChannel(file.name, ret.messages[k],
                                                     ret.messages[k].ts)]
                        IN  /\ result' = result \o messages_in_channel
                            /\ stderr' = stderr \o ret.stderr
                   ELSE UNCHANGED <<result, stderr>>
           ELSE UNCHANGED <<counter, result, stderr>>
    /\ file_index' = file_index + 1
    /\ UNCHANGED <<pc, sorted_results>>
    /\ LoadFrame

\* slack.rs 205-213: the loop is over; the sort and the return
ReturnSorted ==
    /\ pc = "read_zip_contents"
    /\ file_index = Len(archive)
    /\ sorted_results' = sort_by_key(result)
    /\ pc' = "returned"
    /\ UNCHANGED <<file_index, result, counter, stderr>>
    /\ LoadFrame

NextLoad == ReadNextFile \/ ReturnSorted

SpecLoad == InitLoad /\ [][NextLoad]_vars

\* The entries read_zip_contents takes for message files.
IsMessageFile(file) == ~file.is_dir /\ JSON_FILE_NAME_is_match(file.name)

\* The records a message file holds when it decodes.
RecordsOf(file) ==
    LET msgs == Unwrap(file.json)
    IN  { MessageInChannel(file.name, msgs[k], msgs[k].ts) : k \in 1..Len(msgs) }

Returned == { sorted_results[k] : k \in 1..Len(sorted_results) }

\* C12: the load returns, and of its message files each one that decodes has
\* all its messages in the returned collection, and each one that fails to
\* decode is skipped with a warning that names it.
C12_DecodeFailureSkippedWithWarning ==
    pc = "returned" =>
        \A k \in 1..Len(archive) :
            LET file == archive[k]
            IN  IsMessageFile(file) =>
                    IF file.utf8 /\ IsSome(file.json)
                    THEN RecordsOf(file) \subseteq Returned
                    ELSE \E w \in 1..Len(stderr) : stderr[w] = file.name
\* C13: the returned collection holds the loaded messages in ascending order
\* of their timestamps in whole seconds (the fraction of ts plays no part),
\* and the messages of one and the same second are in their load order.
C13_SortedByWholeSecondStable ==
    pc = "returned" =>
        /\ Len(sorted_results) = Len(result)
        /\ \A a, b \in 1..Len(sorted_results) :
               a < b => Message_time(sorted_results[a].message)
                            <= Message_time(sorted_results[b].message)
        /\ \A x \in Returned :
               LET SameSecond(y) ==
                       Message_time(y.message) = Message_time(x.message)
               IN  SelectSeq(sorted_results, SameSecond) = SelectSeq(result, SameSecond)

\* The sort has moved messages, and two messages of one second were loaded
\* with different fractions in their ts.
C13_Witness ==
    /\ pc = "returned"
    /\ sorted_results # result
    /\ \E a, b \in 1..Len(result) :
           /\ a < b
           /\ Message_time(result[a].message) = Message_time(result[b].message)
           /\ result[a].message.ts # result[b].message.ts

====
